---- MODULE Spec2Model ----
(***************************************************************************)
(* A model of sports_scraper.py: the query parsers, the per-league fetch   *)
(* loop, the event parser, the team filter, the CSV appender, the          *)
(* interactive loop and the one-shot entry point.                          *)
(*                                                                         *)
(* Text is a sequence of one-character strings.  Python's None is the      *)
(* empty tuple and a present optional value x is the one-element tuple     *)
(* <<x>>, so that "" (the empty text) and None stay different values.      *)
(***************************************************************************)
EXTENDS Integers, Sequences, FiniteSets, TLC

VARIABLES
    pc,         \* control position of the modelled process
    query,      \* the text handed to a parser / the input line / argv joined
    now,        \* the wall clock's calendar date (datetime.now())
    ret,        \* value returned by the function under study
    fn,         \* name of the function that produced ret
    upstream,   \* the scoreboard service: league -> response
    reqs,       \* HTTP requests issued, in order
    out,        \* messages printed, in order
    csv,        \* the CSV file: None (absent) or <<rows>>
    saved,      \* every record handed to a writing save_to_csv call, in order
    games,      \* the list of games a function works on
    arg,        \* the remaining arguments of the function under study
    idx,        \* loop index of the function under study
    turns       \* number of input lines read by the interactive loop

vars == <<pc, query, now, ret, fn, upstream, reqs, out, csv, saved, games, arg, idx, turns>>

----------------------------------------------------------------------------
(* Optional values *)

None == << >>

Some(x) == <<x>>

Val(o) == o[1]

----------------------------------------------------------------------------
(* Python str operations on texts *)

Whitespace == {" ", "\t"}

Digit == {"0", "1", "2", "3", "4", "5", "6", "7", "8", "9"}

DigitVal(c) ==
    CASE c = "0" -> 0 [] c = "1" -> 1 [] c = "2" -> 2 [] c = "3" -> 3
      [] c = "4" -> 4 [] c = "5" -> 5 [] c = "6" -> 6 [] c = "7" -> 7
      [] c = "8" -> 8 [] c = "9" -> 9

DigitChar(n) ==
    CASE n = 0 -> "0" [] n = 1 -> "1" [] n = 2 -> "2" [] n = 3 -> "3"
      [] n = 4 -> "4" [] n = 5 -> "5" [] n = 6 -> "6" [] n = 7 -> "7"
      [] n = 8 -> "8" [] n = 9 -> "9"

\* str.lower() on one character
LowerChar(c) ==
    CASE c = "A" -> "a" [] c = "B" -> "b" [] c = "C" -> "c" [] c = "D" -> "d"
      [] c = "E" -> "e" [] c = "F" -> "f" [] c = "H" -> "h" [] c = "K" -> "k"
      [] c = "L" -> "l" [] c = "N" -> "n" [] c = "Q" -> "q" [] c = "S" -> "s"
      [] c = "T" -> "t" [] c = "U" -> "u" [] c = "V" -> "v" [] c = "X" -> "x"
      [] OTHER -> c

\* str.upper() on one character
UpperChar(c) ==
    CASE c = "a" -> "A" [] c = "b" -> "B" [] c = "c" -> "C" [] c = "f" -> "F"
      [] c = "h" -> "H" [] c = "l" -> "L" [] c = "n" -> "N"
      [] OTHER -> c

Lower(s) == [i \in 1..Len(s) |-> LowerChar(s[i])]

Upper(s) == [i \in 1..Len(s) |-> UpperChar(s[i])]

Drop(s, n) == SubSeq(s, n + 1, Len(s))

StartsAt(s, sub, i) ==
    /\ i >= 1
    /\ i + Len(sub) - 1 <= Len(s)
    /\ SubSeq(s, i, i + Len(sub) - 1) = sub

RECURSIVE FindFrom(_, _, _)
\* str.find from position i (1-based); 0 when sub does not occur
FindFrom(s, sub, i) ==
    IF i + Len(sub) - 1 > Len(s) THEN 0
    ELSE IF StartsAt(s, sub, i) THEN i
    ELSE FindFrom(s, sub, i + 1)

Find(s, sub) == FindFrom(s, sub, 1)

\* sub in s
In(sub, s) == Find(s, sub) # 0

RECURSIVE Remove(_, _)
\* s.replace(old, ""): the non-overlapping occurrences, left to right
Remove(s, old) ==
    IF Len(s) < Len(old) THEN s
    ELSE IF StartsAt(s, old, 1) THEN Remove(Drop(s, Len(old)), old)
    ELSE <<s[1]>> \o Remove(Tail(s), old)

RECURSIVE LStrip(_)
LStrip(s) == IF s # << >> /\ s[1] \in Whitespace THEN LStrip(Tail(s)) ELSE s

RECURSIVE RStrip(_)
RStrip(s) ==
    IF s # << >> /\ s[Len(s)] \in Whitespace
    THEN RStrip(SubSeq(s, 1, Len(s) - 1))
    ELSE s

\* str.strip()
Strip(s) == RStrip(LStrip(s))

RECURSIVE Split(_, _)
\* s.split(sep): every piece between occurrences of sep
Split(s, sep) ==
    LET i == Find(s, sep)
    IN  IF i = 0 THEN <<s>>
        ELSE <<SubSeq(s, 1, i - 1)>> \o Split(Drop(s, i + Len(sep) - 1), sep)

AllDigits(s) == \A i \in 1..Len(s) : s[i] \in Digit

RECURSIVE ToInt(_)
\* int() of a digit string
ToInt(s) ==
    IF s = << >> THEN 0
    ELSE 10 * ToInt(SubSeq(s, 1, Len(s) - 1)) + DigitVal(s[Len(s)])

\* zero-padded decimal of n in w digits (strftime's %Y, %m, %d)
RECURSIVE Pad(_, _)
Pad(n, w) == IF w = 0 THEN << >> ELSE Pad(n \div 10, w - 1) \o <<DigitChar(n % 10)>>

----------------------------------------------------------------------------
(* datetime: calendar dates, strptime and strftime *)

IsLeap(y) == y % 4 = 0 /\ (y % 100 # 0 \/ y % 400 = 0)

DaysInMonth(y, m) ==
    IF m = 2 THEN (IF IsLeap(y) THEN 29 ELSE 28)
    ELSE IF m \in {4, 6, 9, 11} THEN 30
    ELSE 31

Date(y, m, d) == [y |-> y, m |-> m, d |-> d]

\* date + timedelta(days=1)
NextDay(t) ==
    IF t.d < DaysInMonth(t.y, t.m) THEN Date(t.y, t.m, t.d + 1)
    ELSE IF t.m < 12 THEN Date(t.y, t.m + 1, 1)
    ELSE Date(t.y + 1, 1, 1)

\* date - timedelta(days=1)
PrevDay(t) ==
    IF t.d > 1 THEN Date(t.y, t.m, t.d - 1)
    ELSE IF t.m > 1 THEN Date(t.y, t.m - 1, DaysInMonth(t.y, t.m - 1))
    ELSE Date(t.y - 1, 12, 31)

\* datetime(y, m, d) raises ValueError outside the calendar: None stands for it
MakeDate(y, m, d) ==
    IF y >= 1 /\ m \in 1..12 /\ d >= 1 /\ d <= DaysInMonth(y, m)
    THEN Some(Date(y, m, d))
    ELSE None

\* the six digits read as day, month, year
StrptimeDMY(s) ==
    LET yy == ToInt(SubSeq(s, 5, 6))
    IN  MakeDate(IF yy < 69 THEN 2000 + yy ELSE 1900 + yy,
                 ToInt(SubSeq(s, 3, 4)), ToInt(SubSeq(s, 1, 2)))

\* datetime.strptime(s, "%m%d%y") of a six-digit s; %y pivots at 69
StrptimeMDY(s) ==
    LET yy == ToInt(SubSeq(s, 5, 6))
    IN  MakeDate(IF yy < 69 THEN 2000 + yy ELSE 1900 + yy,
                 ToInt(SubSeq(s, 1, 2)), ToInt(SubSeq(s, 3, 4)))

\* datetime.strptime(s, "%Y-%m-%d") of s matching dddd-dd-dd
StrptimeISO(s) ==
    MakeDate(ToInt(SubSeq(s, 1, 4)), ToInt(SubSeq(s, 6, 7)), ToInt(SubSeq(s, 9, 10)))

\* date.strftime("%Y%m%d")
StrftimeYmd(t) == Pad(t.y, 4) \o Pad(t.m, 2) \o Pad(t.d, 2)

----------------------------------------------------------------------------
(* re.search for the three patterns the parsers use *)

RECURSIVE SearchDigits6From(_, _)
\* re.search(r'(\d{6})', s): start of the leftmost run of six digits, else 0
SearchDigits6From(s, i) ==
    IF i + 5 > Len(s) THEN 0
    ELSE IF AllDigits(SubSeq(s, i, i + 5)) THEN i
    ELSE SearchDigits6From(s, i + 1)

SearchDigits6(s) == SearchDigits6From(s, 1)

IsoAt(s, i) ==
    /\ i + 9 <= Len(s)
    /\ AllDigits(SubSeq(s, i, i + 3))
    /\ s[i + 4] = "-"
    /\ AllDigits(SubSeq(s, i + 5, i + 6))
    /\ s[i + 7] = "-"
    /\ AllDigits(SubSeq(s, i + 8, i + 9))

RECURSIVE SearchIsoFrom(_, _)
\* re.search(r'(\d{4})-(\d{2})-(\d{2})', s): start of the leftmost match, else 0
SearchIsoFrom(s, i) ==
    IF i + 9 > Len(s) THEN 0
    ELSE IF IsoAt(s, i) THEN i
    ELSE SearchIsoFrom(s, i + 1)

SearchIso(s) == SearchIsoFrom(s, 1)

RECURSIVE SkipSpace(_, _)
\* \s* from position i: the first position that is not whitespace
SkipSpace(s, i) ==
    IF i <= Len(s) /\ s[i] \in Whitespace THEN SkipSpace(s, i + 1) ELSE i

RECURSIVE SearchWeekFrom(_, _)
\* re.search(r'week\s*(\d{1,2})', s): int(group(1)) of the leftmost match, else None
SearchWeekFrom(s, i) ==
    IF i + 3 > Len(s) THEN None
    ELSE LET j == SkipSpace(s, i + 4)
         IN  IF StartsAt(s, <<"w", "e", "e", "k">>, i) /\ j <= Len(s) /\ s[j] \in Digit
             THEN IF j + 1 <= Len(s) /\ s[j + 1] \in Digit
                  THEN Some(ToInt(SubSeq(s, j, j + 1)))
                  ELSE Some(ToInt(SubSeq(s, j, j)))
             ELSE SearchWeekFrom(s, i + 1)

SearchWeek(s) == SearchWeekFrom(s, 1)

----------------------------------------------------------------------------
(* The words the parsers look for *)

W_today == <<"t", "o", "d", "a", "y">>

W_yesterday == <<"y", "e", "s", "t", "e", "r", "d", "a", "y">>

W_tomorrow == <<"t", "o", "m", "o", "r", "r", "o", "w">>

W_score == <<"s", "c", "o", "r", "e">>

W_vs == <<" ", "v", "s", " ">>

W_v == <<" ", "v", " ">>

L_nba == <<"n", "b", "a">>

L_nfl == <<"n", "f", "l">>

L_nhl == <<"n", "h", "l">>

L_ncaab == <<"n", "c", "a", "a", "b">>

L_ncaaf == <<"n", "c", "a", "a", "f">>

\* list(APIS.keys()): the league identifiers in declaration order
APIS == <<L_nba, L_nfl, L_nhl, L_ncaab, L_ncaaf>>

Leagues == {APIS[i] : i \in 1..Len(APIS)}

----------------------------------------------------------------------------
(* The parsers *)

RECURSIVE FirstLeagueFrom(_, _)
\* for lg in APIS.keys(): if lg in query: league = lg; break
FirstLeagueFrom(q, i) ==
    IF i > Len(APIS) THEN None
    ELSE IF In(APIS[i], q) THEN Some(APIS[i])
    ELSE FirstLeagueFrom(q, i + 1)

\* the MMDDYY branch: the leftmost six-digit run, parsed, or None
SixDigitDate(q) ==
    LET i == SearchDigits6(q)
    IN  IF i = 0 THEN None ELSE StrptimeMDY(SubSeq(q, i, i + 5))

\* the YYYY-MM-DD branch
IsoDate(q) ==
    LET i == SearchIso(q)
    IN  IF i = 0 THEN None ELSE StrptimeISO(SubSeq(q, i, i + 9))

\* "if week" / "not week" on an optional int: None and 0 are false
Truthy(week) == week # None /\ Val(week) # 0

parse_query(text, t) ==
    LET q == Strip(Lower(text))
        league == FirstLeagueFrom(q, 1)
        week == SearchWeek(q)
        date ==
            IF In(W_today, q) THEN Some(t)
            ELSE IF In(W_yesterday, q) THEN Some(PrevDay(t))
            ELSE IF In(W_tomorrow, q) THEN Some(NextDay(t))
            ELSE IF SixDigitDate(q) # None THEN SixDigitDate(q)
            ELSE IsoDate(q)
    IN  [league |-> league,
         week |-> week,
         date |-> IF date = None /\ ~Truthy(week) THEN Some(t) ELSE date]

\* the scan stopping at the first league found, as parse_query's does
MentionedLeagues_break(q) ==
    IF FirstLeagueFrom(q, 1) = None THEN << >> ELSE <<Val(FirstLeagueFrom(q, 1))>>

\* leagues = [lg for lg in APIS.keys() if lg in query_lower]
MentionedLeagues(q) == SelectSeq(APIS, LAMBDA lg : In(lg, q))

parse_multi_league_query(text, t) ==
    LET q == Strip(Remove(Strip(Lower(text)), W_score))
        date ==
            IF In(W_today, q) THEN Some(t)
            ELSE IF In(W_yesterday, q) THEN Some(PrevDay(t))
            ELSE IF In(W_tomorrow, q) THEN Some(NextDay(t))
            ELSE SixDigitDate(q)
    IN  [leagues |-> MentionedLeagues(q),
         date |-> IF date = None THEN Some(t) ELSE date]

\* the tail of parse_team_query, once the date token is out of the text
SplitTeams(q0, date) ==
    LET q == Strip(Remove(q0, W_score))
    IN  IF In(W_vs, q)
        THEN LET parts == Split(q, W_vs)
             IN  [team1 |-> Strip(parts[1]),
                  team2 |-> IF Len(parts) > 1 THEN Some(Strip(parts[2])) ELSE None,
                  date |-> date]
        ELSE IF In(W_v, q)
        THEN LET parts == Split(q, W_v)
             IN  [team1 |-> Strip(parts[1]),
                  team2 |-> IF Len(parts) > 1 THEN Some(Strip(parts[2])) ELSE None,
                  date |-> date]
        ELSE [team1 |-> Strip(q), team2 |-> None, date |-> date]

parse_team_query(text, t) ==
    LET q == Strip(Lower(text))
        i == SearchDigits6(q)
    IN  IF In(W_today, q) THEN SplitTeams(Remove(q, W_today), Some(t))
        ELSE IF In(W_yesterday, q) THEN SplitTeams(Remove(q, W_yesterday), Some(PrevDay(t)))
        ELSE IF In(W_tomorrow, q) THEN SplitTeams(Remove(q, W_tomorrow), Some(NextDay(t)))
        ELSE IF SixDigitDate(q) # None
        THEN SplitTeams(Remove(q, SubSeq(q, i, i + 5)), SixDigitDate(q))
        ELSE SplitTeams(q, Some(t))

----------------------------------------------------------------------------
(* difflib.SequenceMatcher(None, a, b).ratio(), without junk; the autojunk  *)
(* heuristic only acts on sequences of 200 or more elements                *)

RECURSIVE RunLen(_, _, _, _, _, _)
\* length of the common run of a[i..ahi] and b[j..bhi] that starts at i and j
RunLen(a, b, i, j, ahi, bhi) ==
    IF i <= ahi /\ j <= bhi /\ a[i] = b[j]
    THEN 1 + RunLen(a, b, i + 1, j + 1, ahi, bhi)
    ELSE 0

\* find_longest_match: the longest common block of a[alo..ahi] and b[blo..bhi];
\* of the longest ones the one starting earliest in a, and of those the one
\* starting earliest in b
LongestMatch(a, b, alo, ahi, blo, bhi) ==
    LET size(i, j) == RunLen(a, b, i, j, ahi, bhi)
        pairs == (alo..ahi) \X (blo..bhi)
        best == CHOOSE p \in pairs :
                    \A r \in pairs :
                        \/ size(r[1], r[2]) < size(p[1], p[2])
                        \/ /\ size(r[1], r[2]) = size(p[1], p[2])
                           /\ (p[1] < r[1] \/ (p[1] = r[1] /\ p[2] <= r[2]))
    IN  [i |-> best[1], j |-> best[2], k |-> size(best[1], best[2])]

RECURSIVE Matches(_, _, _, _, _, _)
\* get_matching_blocks, summed: the block, then the same to its left and right
Matches(a, b, alo, ahi, blo, bhi) ==
    IF alo > ahi \/ blo > bhi THEN 0
    ELSE LET m == LongestMatch(a, b, alo, ahi, blo, bhi)
         IN  IF m.k = 0 THEN 0
             ELSE m.k + Matches(a, b, alo, m.i - 1, blo, m.j - 1)
                      + Matches(a, b, m.i + m.k, ahi, m.j + m.k, bhi)

\* The ratio 2.0 * matches / length as the fraction <<numerator, denominator>>;
\* two empty sequences have ratio 1.0
Ratio(a, b) ==
    IF Len(a) + Len(b) = 0 THEN <<1, 1>>
    ELSE <<2 * Matches(a, b, 1, Len(a), 1, Len(b)), Len(a) + Len(b)>>

fuzzy_match(name1, name2) == Ratio(Strip(Lower(name1)), Strip(Lower(name2)))

\* the acceptance threshold 0.6, as ThresholdNum / ThresholdDen
ThresholdNum == 6

ThresholdDen == 10

\* r > 0.6
AboveThreshold(r) == r[1] * ThresholdDen > ThresholdNum * r[2]

----------------------------------------------------------------------------
(* Input texts: every concatenation of at most n pieces of a vocabulary *)

RECURSIVE Flatten(_)
Flatten(ps) == IF ps = << >> THEN << >> ELSE Head(ps) \o Flatten(Tail(ps))

Phrases(V, n) == UNION {{Flatten(p) : p \in [1..k -> V]} : k \in 0..n}

MaxPieces == 3

D_valid == <<"1", "2", "0", "6", "2", "5">>

D_invalid == <<"0", "2", "3", "1", "9", "9">>

ISO_valid == <<"2", "0", "2", "4", "-", "0", "1", "-", "1", "5">>

ISO_invalid == <<"2", "0", "2", "3", "-", "0", "2", "-", "2", "9">>

W_week5 == <<"w", "e", "e", "k", " ", "5">>

W_week0 == <<"w", "e", "e", "k", "0">>

ParseVocab ==
    {<<"b", " ">>, W_vs, W_v, W_score, W_today, W_yesterday, W_tomorrow,
     D_valid, D_invalid, ISO_valid, ISO_invalid, W_week5, W_week0,
     L_nba, <<"N", "F", "L">>}

\* the clock readings tried: the day after a leap day, and a year's last day
Nows == {Date(2024, 3, 1), Date(2024, 12, 31)}

----------------------------------------------------------------------------
(* SpecParse: the three parsers applied to every input text *)

InitParse ==
    /\ pc = "call"
    /\ query \in Phrases(ParseVocab, MaxPieces)
    /\ now \in Nows
    /\ ret = None
    /\ fn = "none"
    /\ upstream = None /\ reqs = << >> /\ out = << >> /\ csv = None
    /\ saved = << >> /\ games = << >> /\ arg = None /\ idx = 0 /\ turns = 0

Others == <<upstream, reqs, out, csv, saved, games, arg, idx, turns>>

CallParseQuery ==
    /\ pc = "call"
    /\ ret' = parse_query(query, now)
    /\ fn' = "parse_query"
    /\ pc' = "ret"
    /\ UNCHANGED <<query, now, Others>>

CallParseMultiLeagueQuery ==
    /\ pc = "call"
    /\ ret' = parse_multi_league_query(query, now)
    /\ fn' = "parse_multi_league_query"
    /\ pc' = "ret"
    /\ UNCHANGED <<query, now, Others>>

CallParseTeamQuery ==
    /\ pc = "call"
    /\ ret' = parse_team_query(query, now)
    /\ fn' = "parse_team_query"
    /\ pc' = "ret"
    /\ UNCHANGED <<query, now, Others>>

NextParse == CallParseQuery \/ CallParseMultiLeagueQuery \/ CallParseTeamQuery

SpecParse == InitParse /\ [][NextParse]_vars

----------------------------------------------------------------------------
(* Vocabulary of the properties: positions and runs in a text, stated with *)
(* quantifiers rather than by the scans the parsers perform                *)

Occurs(sub, s) == \E i \in 1..Len(s) : StartsAt(s, sub, i)

FirstAt(sub, s) ==
    CHOOSE i \in 1..Len(s) :
        StartsAt(s, sub, i) /\ \A j \in 1..(i - 1) : ~StartsAt(s, sub, j)

Elems(ls) == {ls[i] : i \in 1..Len(ls)}

DeclIndex(lg) == CHOOSE k \in 1..Len(APIS) : APIS[k] = lg

SixRunAt(s, i) == i + 5 <= Len(s) /\ \A k \in i..(i + 5) : s[k] \in Digit

HasSixRun(s) == \E i \in 1..Len(s) : SixRunAt(s, i)

FirstSixRun(s) ==
    LET i == CHOOSE i \in 1..Len(s) : SixRunAt(s, i) /\ \A j \in 1..(i - 1) : ~SixRunAt(s, j)
    IN  SubSeq(s, i, i + 5)

IsoRunAt(s, i) ==
    /\ i + 9 <= Len(s)
    /\ \A k \in {0, 1, 2, 3, 5, 6, 8, 9} : s[i + k] \in Digit
    /\ s[i + 4] = "-" /\ s[i + 7] = "-"

HasIsoRun(s) == \E i \in 1..Len(s) : IsoRunAt(s, i)

FirstIsoRun(s) ==
    LET i == CHOOSE i \in 1..Len(s) : IsoRunAt(s, i) /\ \A j \in 1..(i - 1) : ~IsoRunAt(s, j)
    IN  SubSeq(s, i, i + 9)

Num2(a, b) == 10 * DigitVal(a) + DigitVal(b)

IsCalendarDate(t) == t.y >= 1 /\ t.m \in 1..12 /\ t.d \in 1..DaysInMonth(t.y, t.m)

\* a six-digit run read as MMDDYY (two-digit years 69..99 are 19xx, 00..68 are 20xx)
AsMDY(r) ==
    Date((IF Num2(r[5], r[6]) >= 69 THEN 1900 ELSE 2000) + Num2(r[5], r[6]),
         Num2(r[1], r[2]), Num2(r[3], r[4]))

\* a YYYY-MM-DD run read as a date
AsISO(r) == Date(100 * Num2(r[1], r[2]) + Num2(r[3], r[4]), Num2(r[6], r[7]), Num2(r[9], r[10]))

\* The recognition order of the date resolver over text s at clock reading t;
\* None when no step recognises a date.  iso says whether the YYYY-MM-DD step
\* is part of the order.
Recognised(s, t, iso) ==
    IF Occurs(W_today, s) THEN Some(t)
    ELSE IF Occurs(W_yesterday, s) THEN Some(PrevDay(t))
    ELSE IF Occurs(W_tomorrow, s) THEN Some(NextDay(t))
    ELSE IF HasSixRun(s) /\ IsCalendarDate(AsMDY(FirstSixRun(s))) THEN Some(AsMDY(FirstSixRun(s)))
    ELSE IF iso /\ HasIsoRun(s) /\ IsCalendarDate(AsISO(FirstIsoRun(s))) THEN Some(AsISO(FirstIsoRun(s)))
    ELSE None

OrElse(o, x) == IF o = None THEN Some(x) ELSE o

\* the text each parser searches: lower-cased and trimmed; the multi-league
\* parser first takes the word "score" out
SeenBy(f, text) ==
    IF f = "parse_multi_league_query"
    THEN Strip(Remove(Strip(Lower(text)), W_score))
    ELSE Strip(Lower(text))

HasWeekNumber(s) ==
    \E i \in 1..Len(s) :
        /\ StartsAt(s, <<"w", "e", "e", "k">>, i)
        /\ \E j \in (i + 4)..Len(s) :
              /\ s[j] \in Digit
              /\ \A k \in (i + 4)..(j - 1) : s[k] \in Whitespace

Returned(f) == pc = "ret" /\ fn = f

----------------------------------------------------------------------------
(* C6 *)

\* C6 (as stated): the multi-league parser lists exactly the leagues the text
\* mentions, each once, in the order of their first mention in the text.
C6_MentionOrder ==
    Returned("parse_multi_league_query") =>
        LET q == SeenBy(fn, query)
            ls == ret.leagues
        IN  (\E lg \in Leagues : Occurs(lg, q)) =>
                /\ Elems(ls) = {lg \in Leagues : Occurs(lg, q)}
                /\ \A i, j \in 1..Len(ls) : i < j => FirstAt(ls[i], q) < FirstAt(ls[j], q)

\* C6 (amended): the multi-league parser lists exactly the leagues that occur in
\* the lower-cased text with "score" removed, each once, in the declaration
\* order nba, nfl, nhl, ncaab, ncaaf, whatever the order of mention.
C6_DeclarationOrder ==
    Returned("parse_multi_league_query") =>
        LET q == SeenBy(fn, query)
            ls == ret.leagues
        IN  /\ Elems(ls) = {lg \in Leagues : Occurs(lg, q)}
            /\ \A i, j \in 1..Len(ls) : i < j => DeclIndex(ls[i]) < DeclIndex(ls[j])

\* C6 witness: two leagues returned in declaration order although the text
\* mentions the second one first.
C6_Witness ==
    /\ Returned("parse_multi_league_query")
    /\ Len(ret.leagues) = 2
    /\ FirstAt(ret.leagues[2], SeenBy(fn, query)) < FirstAt(ret.leagues[1], SeenBy(fn, query))

----------------------------------------------------------------------------
(* C7 *)

\* C7 (as stated): in each of the three parsers the date is the first of today,
\* yesterday, tomorrow, a valid MMDDYY run, a valid YYYY-MM-DD run, and
\* otherwise the current date.
C7_SameOrderInEveryParser ==
    pc = "ret" => ret.date = OrElse(Recognised(SeenBy(fn, query), now, TRUE), now)

\* C7 (amended): parse_query follows the full order, and falls back to the
\* current date unless the text carries a non-zero week number, in which case
\* the date stays unset; parse_multi_league_query and parse_team_query follow
\* the order without the YYYY-MM-DD step and fall back to the current date.  An
\* invalid six-digit run is skipped without an error in all three.
C7_OrderPerParser ==
    /\ Returned("parse_query") =>
          LET r == Recognised(SeenBy(fn, query), now, TRUE)
          IN  ret.date = IF r = None /\ Truthy(ret.week) THEN None ELSE OrElse(r, now)
    /\ Returned("parse_query") =>
          (ret.week # None <=> HasWeekNumber(SeenBy(fn, query)))
    /\ (Returned("parse_multi_league_query") \/ Returned("parse_team_query")) =>
          ret.date = OrElse(Recognised(SeenBy(fn, query), now, FALSE), now)

\* C7 witness: the multi-league parser met an invalid six-digit run and a valid
\* YYYY-MM-DD date, and resolved to the current date.
C7_Witness ==
    /\ Returned("parse_multi_league_query")
    /\ HasSixRun(SeenBy(fn, query))
    /\ ~IsCalendarDate(AsMDY(FirstSixRun(SeenBy(fn, query))))
    /\ HasIsoRun(SeenBy(fn, query))
    /\ IsCalendarDate(AsISO(FirstIsoRun(SeenBy(fn, query))))
    /\ ret.date = Some(now)
    /\ AsISO(FirstIsoRun(SeenBy(fn, query))) # now

----------------------------------------------------------------------------
(* C4 *)

\* the team parser's text once the date token it recognised and "score" are out
TeamTextCleaned(text, t) ==
    LET q == Strip(Lower(text))
        d == IF Occurs(W_today, q) THEN Remove(q, W_today)
             ELSE IF Occurs(W_yesterday, q) THEN Remove(q, W_yesterday)
             ELSE IF Occurs(W_tomorrow, q) THEN Remove(q, W_tomorrow)
             ELSE IF HasSixRun(q) /\ IsCalendarDate(AsMDY(FirstSixRun(q)))
             THEN Remove(q, FirstSixRun(q))
             ELSE q
    IN  Remove(d, W_score)

SeparatorAt(s, i) == StartsAt(s, W_vs, i) \/ StartsAt(s, W_v, i)

\* C4: for a text with " vs " or " v ", team1 is the trimmed text left of the
\* first separator of the cleaned text and team2 the trimmed text right of it,
\* absent when that is empty; team1 is not empty.
C4_SplitAtFirstSeparator ==
    (Returned("parse_team_query") /\ \E i \in 1..Len(query) : SeparatorAt(SeenBy(fn, query), i)) =>
        LET c == TeamTextCleaned(query, now)
        IN  /\ \E i \in 1..Len(c) : SeparatorAt(c, i)
            /\ LET p == CHOOSE i \in 1..Len(c) :
                            SeparatorAt(c, i) /\ \A j \in 1..(i - 1) : ~SeparatorAt(c, j)
                   n == IF StartsAt(c, W_vs, p) THEN Len(W_vs) ELSE Len(W_v)
                   left == Strip(SubSeq(c, 1, p - 1))
                   right == Strip(Drop(c, p + n - 1))
               IN  /\ ret.team1 = left
                   /\ ret.team1 # << >>
                   /\ ret.team2 = IF right = << >> THEN None ELSE Some(right)

----------------------------------------------------------------------------
(* Game records and find_team_game *)

\* The dict parse_game returns.  home and away are what the upstream payload
\* held: Some(text), or None.
Game(league, home, away, score, status, date) ==
    [league |-> league, home |-> home, away |-> away,
     score |-> score, status |-> status, date |-> date]

\* team in home or team in away or fuzzy_match(team, home) > 0.6 or
\* fuzzy_match(team, away) > 0.6
TeamMatches(team, home, away) ==
    \/ In(team, home)
    \/ In(team, away)
    \/ AboveThreshold(fuzzy_match(team, home))
    \/ AboveThreshold(fuzzy_match(team, away))

\* the loop body with the team2 test left out
GameMatches_ignoring_team2(g, team1, team2) ==
    TeamMatches(team1, Lower(Val(g.home)), Lower(Val(g.away)))

\* the loop body of find_team_game: does game g go into the result?
\* team2 is None or Some(text); "if team2" is false for None and for ""
GameMatches(g, team1, team2) ==
    /\ TeamMatches(team1, Lower(Val(g.home)), Lower(Val(g.away)))
    /\ (team2 # None /\ Val(team2) # << >>)
          => TeamMatches(Val(team2), Lower(Val(g.home)), Lower(Val(g.away)))

RECURSIVE FindLoop(_, _, _, _, _)
\* for game in games: ...; game['home'].lower() raises AttributeError on None
FindLoop(gs, team1, team2, i, matched) ==
    IF i > Len(gs) THEN [raised |-> FALSE, value |-> matched]
    ELSE IF gs[i].home = None \/ gs[i].away = None THEN [raised |-> TRUE, value |-> << >>]
    ELSE FindLoop(gs, team1, team2, i + 1,
                  IF GameMatches(gs[i], team1, team2) THEN Append(matched, gs[i]) ELSE matched)

find_team_game(gs, team1, team2) ==
    FindLoop(gs, Strip(Lower(team1)),
             IF team2 # None /\ Val(team2) # << >> THEN Some(Strip(Lower(Val(team2)))) ELSE None,
             1, << >>)

----------------------------------------------------------------------------
(* SpecFind: find_team_game applied to every list of games and team names *)

MaxGames == 3

T_nba == <<"N", "B", "A">>

T_final == <<"F", "i", "n", "a", "l">>

T_date == <<"2", "0", "2", "4", "-", "0", "3", "-", "0", "1">>

T_lakers == <<"L", "a", "k", "e", "r", "s">>

T_celtics == <<"C", "e", "l", "t", "i", "c", "s">>

T_bulls == <<"B", "u", "l", "l", "s">>

T_knicks == <<"K", "n", "i", "c", "k", "s">>

T_score == <<"9", "8", "-", "9", "9">>

G_lakers_celtics == Game(T_nba, Some(T_lakers), Some(T_celtics), T_score, T_final, T_date)

G_bulls_knicks == Game(T_nba, Some(T_bulls), Some(T_knicks), T_score, T_final, T_date)

G_celtics_bulls == Game(T_nba, Some(T_celtics), Some(T_bulls), T_score, T_final, T_date)

\* what parse_game returns for an event whose two competitors are both "away"
G_nohome_knicks == Game(T_nba, None, Some(T_knicks), T_score, T_final, T_date)

GamePool == {G_lakers_celtics, G_bulls_knicks, G_celtics_bulls, G_nohome_knicks}

GameLists(n) == UNION {[1..k -> GamePool] : k \in 0..n}

Team1Pool ==
    {<<"l", "a", "k", "e", "r">>,                      \* substring of Lakers
     <<"C", "E", "L", "T", "I", "C", "S", " ">>,       \* needs lower() and strip()
     <<"c", "e", "l", "t", "c", "s">>,                 \* similar to Celtics only
     <<"b", "u", "l", "x", "y">>,                      \* ratio 0.6 with Bulls: not above
     << >>,
     <<"z", "z">>}

Team2Pool ==
    {None, Some(<< >>), Some(<<" ">>), Some(<<"k", "n", "i", "c", "k">>),
     Some(<<"b", "u", "l", "l", "z">>), Some(<<"l", "a", "k", "e", "r">>)}

InitFind ==
    /\ pc = "call"
    /\ games \in GameLists(MaxGames)
    /\ \E t1 \in Team1Pool, t2 \in Team2Pool : arg = [team1 |-> t1, team2 |-> t2]
    /\ ret = None
    /\ fn = "none"
    /\ query = << >> /\ now = Date(2024, 3, 1)
    /\ upstream = None /\ reqs = << >> /\ out = << >> /\ csv = None
    /\ saved = << >> /\ idx = 0 /\ turns = 0

CallFindTeamGame ==
    /\ pc = "call"
    /\ ret' = find_team_game(games, arg.team1, arg.team2)
    /\ fn' = "find_team_game"
    /\ pc' = "ret"
    /\ UNCHANGED <<games, arg, query, now, upstream, reqs, out, csv, saved, idx, turns>>

NextFind == CallFindTeamGame

SpecFind == InitFind /\ [][NextFind]_vars

----------------------------------------------------------------------------
(* C8 *)

Contains(sub, s) ==
    \E i \in 1..(Len(s) + 1) :
        i + Len(sub) - 1 <= Len(s) /\ SubSeq(s, i, i + Len(sub) - 1) = sub

\* the acceptance rule: the fragment is contained in the name, or their
\* similarity is above 0.6 (both lower-cased, the fragment trimmed)
Accepts(frag, name) ==
    \/ Contains(Strip(Lower(frag)), Lower(name))
    \/ AboveThreshold(Ratio(Strip(Lower(frag)), Strip(Lower(name))))

Accepted(g, team1, team2) ==
    /\ Accepts(team1, Val(g.home)) \/ Accepts(team1, Val(g.away))
    /\ team2 # None => (Accepts(Val(team2), Val(g.home)) \/ Accepts(Val(team2), Val(g.away)))

NamesAreStrings(gs) == \A i \in 1..Len(gs) : gs[i].home # None /\ gs[i].away # None

\* C8: on game records (home and away are strings) find_team_game returns
\* exactly the records accepted for team1 and, when given, team2, in input
\* order, each as often as it occurs in the input, so the empty sequence when
\* none is accepted; it does not return only when a record has no string name.
C8_FilterInOrder ==
    Returned("find_team_game") =>
        /\ ret.raised <=> ~NamesAreStrings(games)
        /\ NamesAreStrings(games) =>
              ret.value = SelectSeq(games, LAMBDA g : Accepted(g, arg.team1, arg.team2))

\* C8 witness: with team2 given, find_team_game kept some records and dropped a
\* record that team1 alone accepts.
C8_Witness ==
    /\ Returned("find_team_game")
    /\ ~ret.raised
    /\ arg.team2 # None
    /\ ret.value # << >>
    /\ \E i \in 1..Len(games) :
          /\ Accepted(games[i], arg.team1, None)
          /\ ~Accepted(games[i], arg.team1, arg.team2)

----------------------------------------------------------------------------
(* The upstream JSON as parse_game reads it.  A key of a JSON object is     *)
(* Absent, or holds null, a string, a list or an object.                    *)

Absent == <<"absent">>

JNull == <<"null">>

JStr(t) == <<"str", t>>

JList(xs) == <<"list", xs>>

JDict(r) == <<"dict", r>>

\* a JSON string or null as the Python value: None or Some(text)
PyVal(j) == IF j = JNull THEN None ELSE Some(j[2])

W_home == <<"h", "o", "m", "e">>

W_Unknown == <<"U", "n", "k", "n", "o", "w", "n">>

S_FINAL == <<"S", "T", "A", "T", "U", "S", "_", "F", "I", "N", "A", "L">>

S_IN_PROGRESS == <<"S", "T", "A", "T", "U", "S", "_", "I", "N", "_", "P", "R", "O", "G", "R", "E", "S", "S">>

T_Final == <<"F", "i", "n", "a", "l">>

T_Live == <<"L", "i", "v", "e">>

T_Scheduled == <<"S", "c", "h", "e", "d", "u", "l", "e", "d">>

Competitor(homeAway, team, score) == [homeAway |-> homeAway, team |-> team, score |-> score]

Team(displayName, name) == JDict([displayName |-> displayName, name |-> name])

Event(competitions, status, date) == [competitions |-> competitions, status |-> status, date |-> date]

Competition(competitors) == [competitors |-> competitors]

\* team_data.get("displayName", team_data.get("name", "Unknown")) with
\* team_data = comp.get("team", {})
TeamName(comp) ==
    IF comp.team = Absent THEN Some(W_Unknown)
    ELSE LET d == comp.team[2]
         IN  IF d.displayName # Absent THEN PyVal(d.displayName)
             ELSE IF d.name # Absent THEN PyVal(d.name)
             ELSE Some(W_Unknown)

\* comp.get("score", "0")
ScoreOf(comp) == IF comp.score = Absent THEN <<"0">> ELSE comp.score[2]

IsHome(comp) == comp.homeAway = JStr(W_home)

\* the status name mapped to Final, Live or Scheduled
GameStatus(event) ==
    IF event.status = JStr(S_FINAL) THEN T_Final
    ELSE IF event.status = JStr(S_IN_PROGRESS) THEN T_Live
    ELSE T_Scheduled

\* the loop over the two competitors: the later assignment wins
GameOf(event, league, c1, c2) ==
    LET home == IF IsHome(c2) THEN TeamName(c2) ELSE IF IsHome(c1) THEN TeamName(c1) ELSE None
        away == IF ~IsHome(c2) THEN TeamName(c2) ELSE IF ~IsHome(c1) THEN TeamName(c1) ELSE None
        home_score == IF IsHome(c2) THEN ScoreOf(c2) ELSE IF IsHome(c1) THEN ScoreOf(c1) ELSE <<"0">>
        away_score == IF ~IsHome(c2) THEN ScoreOf(c2) ELSE IF ~IsHome(c1) THEN ScoreOf(c1) ELSE <<"0">>
        status == GameStatus(event)
        date == IF event.date = Absent THEN << >>
                ELSE SubSeq(event.date[2], 1, IF Len(event.date[2]) < 10 THEN Len(event.date[2]) ELSE 10)
    IN  Game(Upper(league), home, away,
             IF status = T_Scheduled THEN <<"-">> ELSE away_score \o <<"-">> \o home_score,
             status, date)

\* parse_game: Some(record), or None where the code returns None (the early
\* return, or an exception caught by "except Exception")
parse_game(event, league) ==
    IF event.competitions = JNull THEN None
    ELSE IF event.competitions # Absent /\ event.competitions[2] = << >> THEN None
    ELSE LET competition == IF event.competitions = Absent
                            THEN Competition(Absent)
                            ELSE event.competitions[2][1]
             competitors == IF competition.competitors = Absent
                            THEN << >>
                            ELSE competition.competitors[2]
         IN  IF Len(competitors) # 2 THEN None
             ELSE IF competitors[1].team = JNull \/ competitors[2].team = JNull THEN None
             ELSE IF event.date = JNull THEN None
             ELSE Some(GameOf(event, league, competitors[1], competitors[2]))

RECURSIVE ParseEvents(_, _)
\* for event in data.get("events", []): game_info = parse_game(event, lg);
\* if game_info: all_games.append(game_info)
ParseEvents(events, league) ==
    IF events = << >> THEN << >>
    ELSE LET g == parse_game(Head(events), league)
         IN  (IF g = None THEN << >> ELSE <<Val(g)>>) \o ParseEvents(Tail(events), league)

----------------------------------------------------------------------------
(* fetch_games *)

\* A response of the service to one request:
\*   ok                 status 200, a JSON object; events is its "events" list
\*   connection_error   requests.ConnectionError
\*   http_error         raise_for_status() raises requests.HTTPError
\*   timeout            requests.Timeout after 10 seconds
\*   json_decode_error  the body is not JSON and response.json() raises
\*                      requests.JSONDecodeError, a RequestException
\*   json_value_error   the same body under a requests release whose json()
\*                      raises a plain ValueError
\*   not_object         the body is JSON but not an object: data.get raises
\*   events_null        "events" is null: the for loop raises TypeError
Response(kind, events) == [kind |-> kind, events |-> events]

CaughtKinds == {"connection_error", "http_error", "timeout", "json_decode_error"}

UncaughtKinds == {"json_value_error", "not_object", "events_null"}

WeekLeagues == {L_nfl, L_ncaaf}

\* the params of the request for league lg
Params(lg, week, date, t) ==
    IF Truthy(week) /\ lg \in WeekLeagues
    THEN [league |-> lg, week |-> week, dates |-> None]
    ELSE IF date # None
    THEN [league |-> lg, week |-> None, dates |-> Some(StrftimeYmd(Val(date)))]
    ELSE [league |-> lg, week |-> None, dates |-> Some(StrftimeYmd(t))]

RECURSIVE FetchLoop(_, _, _, _, _, _)
\* the loop over leagues_to_fetch from the state st = [games, reqs, warned];
\* an exception that "except requests.RequestException" does not catch ends it
FetchLoop(ls, week, date, t, up, st) ==
    IF ls = << >> THEN [raised |-> FALSE] @@ st
    ELSE IF Head(ls) \notin Leagues THEN FetchLoop(Tail(ls), week, date, t, up, st)
    ELSE LET lg == Head(ls)
             sent == [st EXCEPT !.reqs = Append(@, Params(lg, week, date, t))]
         IN  IF up[lg].kind \in UncaughtKinds THEN [raised |-> TRUE] @@ sent
             ELSE IF up[lg].kind \in CaughtKinds
             THEN FetchLoop(Tail(ls), week, date, t, up,
                            [sent EXCEPT !.warned = Append(@, lg)])
             ELSE FetchLoop(Tail(ls), week, date, t, up,
                            [sent EXCEPT !.games = @ \o ParseEvents(up[lg].events, lg)])

\* fetch_games(league, week, date) at clock reading t against the service up.
\* league is None or Some(text); "if league" is false for None and for "".
fetch_games(league, week, date, t, up) ==
    FetchLoop(IF league # None /\ Val(league) # << >> THEN <<Val(league)>> ELSE APIS,
              week, date, t, up,
              [games |-> << >>, reqs |-> << >>, warned |-> << >>])

----------------------------------------------------------------------------
(* save_to_csv and print_games *)

CsvHeader == <<<<"d", "a", "t", "e">>, <<"l", "e", "a", "g", "u", "e">>, <<"h", "o", "m", "e">>, <<"a", "w", "a", "y">>, <<"s", "c", "o", "r", "e">>, <<"s", "t", "a", "t", "u", "s">>>>

\* csv.writer writes None as the empty field
Cell(v) == IF v = None THEN << >> ELSE Val(v)

CsvRow(g) == <<g.date, g.league, Cell(g.home), Cell(g.away), g.score, g.status>>

\* save_to_csv with the header written by every call that writes
save_to_csv_header_each_time(file, gs) ==
    IF gs = << >> THEN file
    ELSE Some((IF file = None THEN << >> ELSE Val(file))
              \o <<CsvHeader>> \o [i \in 1..Len(gs) |-> CsvRow(gs[i])])

\* save_to_csv: file is None (no file) or Some(rows); the file afterwards
save_to_csv(file, gs) ==
    IF gs = << >> THEN file
    ELSE Some((IF file = None THEN <<CsvHeader>> ELSE Val(file))
              \o [i \in 1..Len(gs) |-> CsvRow(gs[i])])

\* print_games: the lines printed, or raised when a name is None
\* (format(None, "<30") raises TypeError)
print_games(gs) ==
    IF gs = << >> THEN [raised |-> FALSE, lines |-> <<<<"No games found.">>>>]
    ELSE IF \E i \in 1..Len(gs) : gs[i].home = None \/ gs[i].away = None
    THEN LET bad == CHOOSE i \in 1..Len(gs) :
                        /\ gs[i].home = None \/ gs[i].away = None
                        /\ \A j \in 1..(i - 1) : gs[j].home # None /\ gs[j].away # None
         IN  [raised |-> TRUE,
              lines |-> <<<<"table header">>>> \o [i \in 1..(bad - 1) |-> <<"table row", gs[i]>>]]
    ELSE [raised |-> FALSE,
          lines |-> <<<<"table header">>>> \o [i \in 1..Len(gs) |-> <<"table row", gs[i]>>]]

----------------------------------------------------------------------------
(* Upstream events *)

T_iso == <<"2", "0", "2", "4", "-", "0", "3", "-", "0", "1", "T", "1", "9", ":", "3", "0", "Z">>

Named(n) == Team(JStr(n), Absent)

\* a well-formed event: home and away named, final
E_lakers_celtics ==
    Event(JList(<<Competition(JList(<<Competitor(JStr(W_home), Named(T_lakers), JStr(<<"9", "8">>)),
                                      Competitor(JStr(<<"a", "w", "a", "y">>), Named(T_celtics), JStr(<<"9", "9">>))>>))>>),
          JStr(S_FINAL), JStr(T_iso))

\* a well-formed event, away listed first, not started
E_knicks_bulls ==
    Event(JList(<<Competition(JList(<<Competitor(JStr(<<"a", "w", "a", "y">>), Named(T_knicks), Absent),
                                      Competitor(JStr(W_home), Named(T_bulls), Absent)>>))>>),
          Absent, JStr(T_iso))

E_no_competitions == Event(Absent, JStr(S_FINAL), JStr(T_iso))

E_one_competitor ==
    Event(JList(<<Competition(JList(<<Competitor(JStr(W_home), Named(T_lakers), JStr(<<"9", "8">>))>>))>>),
          JStr(S_FINAL), JStr(T_iso))

E_two_away ==
    Event(JList(<<Competition(JList(<<Competitor(JStr(<<"a", "w", "a", "y">>), Named(T_lakers), JStr(<<"9", "8">>)),
                                      Competitor(JStr(<<"a", "w", "a", "y">>), Named(T_knicks), JStr(<<"9", "9">>))>>))>>),
          JStr(S_IN_PROGRESS), JStr(T_iso))

E_two_home ==
    Event(JList(<<Competition(JList(<<Competitor(JStr(W_home), Named(T_lakers), JStr(<<"9", "8">>)),
                                      Competitor(JStr(W_home), Named(T_knicks), JStr(<<"9", "9">>))>>))>>),
          JStr(S_FINAL), JStr(T_iso))

E_team_missing ==
    Event(JList(<<Competition(JList(<<Competitor(JStr(W_home), Absent, JStr(<<"9", "8">>)),
                                      Competitor(JStr(<<"a", "w", "a", "y">>), Named(T_celtics), JStr(<<"9", "9">>))>>))>>),
          JStr(S_FINAL), JStr(T_iso))

E_team_null ==
    Event(JList(<<Competition(JList(<<Competitor(JStr(W_home), JNull, JStr(<<"9", "8">>)),
                                      Competitor(JStr(<<"a", "w", "a", "y">>), Named(T_celtics), JStr(<<"9", "9">>))>>))>>),
          JStr(S_FINAL), JStr(T_iso))

EventPool ==
    {E_lakers_celtics, E_knicks_bulls, E_no_competitions, E_one_competitor,
     E_two_away, E_two_home, E_team_missing, E_team_null}

----------------------------------------------------------------------------
(* SpecGame: the event loop of fetch_games on every list of events *)

MaxEvents == 2

InitGame ==
    /\ pc = "call"
    /\ \E es \in UNION {[1..k -> EventPool] : k \in 0..MaxEvents} :
          arg = [events |-> es, league |-> L_nba]
    /\ ret = None
    /\ fn = "none"
    /\ query = << >> /\ now = Date(2024, 3, 1) /\ games = << >>
    /\ upstream = None /\ reqs = << >> /\ out = << >> /\ csv = None
    /\ saved = << >> /\ idx = 0 /\ turns = 0

CallParseEvents ==
    /\ pc = "call"
    /\ ret' = ParseEvents(arg.events, arg.league)
    /\ fn' = "parse_game"
    /\ pc' = "ret"
    /\ UNCHANGED <<games, arg, query, now, upstream, reqs, out, csv, saved, idx, turns>>

NextGame == CallParseEvents

SpecGame == InitGame /\ [][NextGame]_vars

----------------------------------------------------------------------------
(* C9 *)

\* the competitors of an event that has the expected structure so far
CompetitorsOf(e) ==
    IF e.competitions \in {Absent, JNull} \/ e.competitions[2] = << >> THEN << >>
    ELSE IF e.competitions[2][1].competitors = Absent THEN << >>
    ELSE e.competitions[2][1].competitors[2]

HasTeamData(c) ==
    /\ c.team \notin {Absent, JNull}
    /\ \/ c.team[2].displayName \notin {Absent, JNull}
       \/ c.team[2].displayName = Absent /\ c.team[2].name \notin {Absent, JNull}

\* the expected structure: one competition with two competitors, one designated
\* home and one away, each with team data
ExpectedStructure(e) ==
    LET cs == CompetitorsOf(e)
    IN  /\ Len(cs) = 2
        /\ \E h, a \in 1..2 :
              /\ h # a
              /\ cs[h].homeAway = JStr(W_home)
              /\ cs[a].homeAway = JStr(<<"a", "w", "a", "y">>)
        /\ \A i \in 1..2 : HasTeamData(cs[i])

\* C9: parse_game returns nothing for an event without the expected structure,
\* every record it returns has a string home and a string away name, and the
\* events with the expected structure yield their records in order.
C9_MalformedEventsDropped ==
    Returned("parse_game") =>
        /\ Len(ret) = Len(SelectSeq(arg.events, ExpectedStructure))
        /\ \A i \in 1..Len(ret) : ret[i].home # None /\ ret[i].away # None

----------------------------------------------------------------------------
(* SpecFetch: fetch_games on every assignment of an outcome to each league *)

R_ok == Response("ok", <<E_lakers_celtics>>)

R_empty == Response("ok", << >>)

FetchResponses ==
    {R_ok, R_empty, Response("http_error", << >>), Response("timeout", << >>),
     Response("json_decode_error", << >>), Response("json_value_error", << >>),
     Response("not_object", << >>)}

InitFetch ==
    /\ pc = "call"
    /\ upstream \in [Leagues -> FetchResponses]
    /\ \E lg \in {None, Some(L_nfl), Some(L_nhl)}, w \in {None, Some(5)},
          d \in {None, Some(Date(2024, 2, 29))} :
          arg = [league |-> lg, week |-> w, date |-> d]
    /\ now = Date(2024, 3, 1)
    /\ ret = None
    /\ fn = "none"
    /\ query = << >> /\ games = << >> /\ reqs = << >> /\ out = << >> /\ csv = None
    /\ saved = << >> /\ idx = 0 /\ turns = 0

CallFetchGames ==
    /\ pc = "call"
    /\ ret' = fetch_games(arg.league, arg.week, arg.date, now, upstream)
    /\ fn' = "fetch_games"
    /\ pc' = "ret"
    /\ UNCHANGED <<games, arg, query, now, upstream, reqs, out, csv, saved, idx, turns>>

NextFetch == CallFetchGames

SpecFetch == InitFetch /\ [][NextFetch]_vars

----------------------------------------------------------------------------
(* C1 *)

\* the leagues a call is to fetch: the one named, else all five in order
LeaguesToFetch(league) == IF league = None THEN APIS ELSE <<Val(league)>>

RECURSIVE RecordsInOrder(_, _)
\* the records of the leagues that answered, in league order; a failed league
\* contributes nothing
RecordsInOrder(ls, up) ==
    IF ls = << >> THEN << >>
    ELSE (IF up[Head(ls)].kind = "ok" THEN ParseEvents(up[Head(ls)].events, Head(ls)) ELSE << >>)
         \o RecordsInOrder(Tail(ls), up)

\* C1: whatever the outcome per league (records, transport or HTTP error,
\* timeout, undecodable or ill-shaped body), fetch_games does not raise, sends
\* the request of every league, and returns the records of the leagues that
\* answered, in league order.
C1_FailureIsolated ==
    Returned("fetch_games") =>
        /\ ~ret.raised
        /\ [i \in 1..Len(ret.reqs) |-> ret.reqs[i].league] = LeaguesToFetch(arg.league)
        /\ ret.games = RecordsInOrder(LeaguesToFetch(arg.league), upstream)

----------------------------------------------------------------------------
(* SpecCsv: any sequence of save_to_csv calls on a file that starts absent *)

MaxCalls == 2

MaxBatch == 2

CsvPool == {G_lakers_celtics, G_bulls_knicks, G_celtics_bulls}

InitCsv ==
    /\ pc = "call"
    /\ csv = None
    /\ saved = << >>
    /\ turns = 0
    /\ games = << >>
    /\ ret = None /\ fn = "none" /\ arg = None
    /\ query = << >> /\ now = Date(2024, 3, 1)
    /\ upstream = None /\ reqs = << >> /\ out = << >> /\ idx = 0

\* one call save_to_csv(gs); saved keeps the records of all calls so far
SaveToCsv ==
    /\ pc = "call"
    /\ turns < MaxCalls
    /\ \E gs \in UNION {[1..k -> CsvPool] : k \in 0..MaxBatch} :
          /\ csv' = save_to_csv(csv, gs)
          /\ saved' = saved \o gs
          /\ games' = gs
    /\ turns' = turns + 1
    /\ fn' = "save_to_csv"
    /\ UNCHANGED <<pc, ret, arg, query, now, upstream, reqs, out, idx>>

NextCsv == SaveToCsv

SpecCsv == InitCsv /\ [][NextCsv]_vars

----------------------------------------------------------------------------
(* C2 *)

HeaderRow == <<<<"d", "a", "t", "e">>, <<"l", "e", "a", "g", "u", "e">>, <<"h", "o", "m", "e">>, <<"a", "w", "a", "y">>, <<"s", "c", "o", "r", "e">>, <<"s", "t", "a", "t", "u", "s">>>>

RowOf(g) == <<g.date, g.league, Val(g.home), Val(g.away), g.score, g.status>>

\* C2: the file is absent while every call so far had no records; otherwise it
\* is the header row followed by one row per record of all calls, in call order
\* and input order, nothing removed, rewritten or deduplicated.
C2_HeaderOnceThenEveryRecord ==
    IF saved = << >>
    THEN csv = None
    ELSE csv = Some(<<HeaderRow>> \o [i \in 1..Len(saved) |-> RowOf(saved[i])])

\* C2 witness: the same non-empty list saved twice gives one header and 2N rows.
C2_Witness ==
    /\ turns = 2
    /\ games # << >>
    /\ saved = games \o games
    /\ Len(Val(csv)) = 1 + 2 * Len(games)

----------------------------------------------------------------------------
(* The program: main() in one-shot mode, and the interactive loop           *)
(*                                                                         *)
(* pc: "main" (one-shot, before main's body), "done" (main returned),      *)
(* "prompt" (at input()), "dispatch" (a line was read), "handled" (the     *)
(* turn's branch ran to its continue), "exited" (the loop was left),       *)
(* "crashed" (an exception left the program with a traceback).             *)
(* out and reqs hold what the current turn printed and requested; arg      *)
(* holds the CSV file as it was when the turn began.                       *)

W_quit == <<"q", "u", "i", "t">>

W_exit == <<"e", "x", "i", "t">>

W_q == <<"q">>

W_help == <<"h", "e", "l", "p">>

W_all_sports == <<"a", "l", "l", " ", "s", "p", "o", "r", "t", "s">>

W_all_score == <<"a", "l", "l", " ", "s", "c", "o", "r", "e">>

ExitCommands == {W_quit, W_exit, W_q}

MaxLinePieces == 2

MaxTurns == 2

LineVocab ==
    {<<"x">>, <<"a", "l", "l", " ", "s", "c", "o", "r", "e", " ">>, <<"l", "a", " ", "v", " ", "c", "e">>, L_nba, <<"n", "f", "l", " ">>, W_week5, W_yesterday}

FixedLines ==
    {W_quit, W_exit, <<"Q">>, W_help, <<" ", " ">>, W_all_sports, <<"n", "s", "c", "o", "r", "e", "b", "a">>,
     ISO_valid, <<"a", " ", "v", "s", " ", "t", "o", "d", "a", "y">>}

Lines == Phrases(LineVocab, MaxLinePieces) \cup FixedLines

\* what each league answers when the service is healthy
Healthy ==
    [lg \in Leagues |->
        IF lg = L_nba THEN Response("ok", <<E_lakers_celtics>>)
        ELSE IF lg = L_nfl THEN Response("ok", <<E_knicks_bulls>>)
        ELSE Response("ok", << >>)]

Faults ==
    {Response("timeout", << >>), Response("not_object", << >>),
     Response("ok", <<E_two_away>>)}

\* the service healthy, or with one fault at the first or at a later league
Scenarios ==
    {Healthy} \cup {[Healthy EXCEPT ![lg] = f] : lg \in {L_nba, L_ncaab}, f \in Faults}

Warnings(f) == [i \in 1..Len(f.warned) |-> <<"Warning: Could not fetch", f.warned[i]>>]

\* print_games(gs), then "if gs: save_to_csv(gs); print Saved"
ShowAndSave(gs, file) ==
    LET p == print_games(gs)
    IN  IF p.raised THEN [raised |-> TRUE, out |-> p.lines, csv |-> file]
        ELSE [raised |-> FALSE,
              out |-> p.lines \o (IF gs = << >> THEN << >> ELSE <<<<"Saved", Len(gs)>>>>),
              csv |-> save_to_csv(file, gs)]

RECURSIVE FetchEach(_, _, _, _, _)
\* all_games = []; for league in ls: all_games.extend(fetch_games(league=league, date=date))
FetchEach(ls, date, t, up, st) ==
    IF ls = << >> THEN [raised |-> FALSE] @@ st
    ELSE LET f == fetch_games(Some(Head(ls)), None, date, t, up)
             st2 == [games |-> st.games \o f.games,
                     reqs |-> st.reqs \o f.reqs,
                     warned |-> st.warned \o f.warned]
         IN  IF f.raised THEN [raised |-> TRUE] @@ st2
             ELSE FetchEach(Tail(ls), date, t, up, st2)

NoFetch == [games |-> << >>, reqs |-> << >>, warned |-> << >>]

\* the end of a fetching branch: f is the fetch, gs the games to show
Finish(f, gs, head) ==
    IF f.raised
    THEN /\ pc' = "crashed"
         /\ out' = head \o Warnings(f)
         /\ csv' = csv
    ELSE LET r == ShowAndSave(gs, csv)
         IN  /\ pc' = IF r.raised THEN "crashed" ELSE IF pc = "main" THEN "done" ELSE "handled"
             /\ out' = head \o Warnings(f) \o r.out
             /\ csv' = r.csv

Init ==
    /\ upstream \in Scenarios
    /\ now = Date(2024, 3, 1)
    /\ \/ pc = "prompt" /\ query = << >>
       \/ pc = "main" /\ query \in Lines
    /\ csv = None
    /\ arg = None
    /\ out = << >> /\ reqs = << >>
    /\ fn = "none" /\ ret = None
    /\ saved = << >> /\ games = << >> /\ idx = 0 /\ turns = 0

Frame == <<now, upstream, ret, saved, games, idx>>

\* main() with arguments: query = " ".join(sys.argv[1:])
Main ==
    /\ pc = "main"
    /\ LET parsed == parse_query(query, now)
           f == fetch_games(parsed.league, parsed.week, parsed.date, now, upstream)
           head == IF Truthy(parsed.week)
                   THEN <<<<"Fetching", parsed.league, "Week", Val(parsed.week)>>>>
                   ELSE <<<<"Fetching", parsed.league, "date", parsed.date>>>>
       IN  /\ reqs' = f.reqs
           /\ Finish(f, f.games, head)
    /\ fn' = "main"
    /\ arg' = csv
    /\ UNCHANGED <<query, turns, Frame>>

\* user_input = input(">> ").strip()
ReadLine ==
    /\ pc = "prompt"
    /\ turns < MaxTurns
    /\ \E line \in Lines : query' = Strip(line)
    /\ pc' = "dispatch"
    /\ turns' = turns + 1
    /\ arg' = csv
    /\ UNCHANGED <<out, reqs, csv, fn, Frame>>

\* input() raises EOFError or KeyboardInterrupt
ReadEOF ==
    /\ pc = "prompt"
    /\ turns < MaxTurns
    /\ pc' = "exited"
    /\ out' = <<<<"Goodbye!">>>>
    /\ fn' = "eof"
    /\ turns' = turns + 1
    /\ arg' = csv
    /\ UNCHANGED <<query, reqs, csv, Frame>>

IsExit(cmd) == cmd \in ExitCommands

IsHelp(cmd) == cmd = W_help

IsAllSports(cmd) == In(W_all_sports, cmd) \/ In(W_all_score, cmd)

IsTeam(cmd) == In(W_vs, cmd) \/ In(W_v, cmd)

\* a variant that takes every line for a league query
HasLeagues_always(parsed) == TRUE

\* if parsed["leagues"]:
HasLeagues(parsed) == parsed.leagues # << >>

\* if not user_input: continue
TurnEmpty ==
    /\ pc = "dispatch"
    /\ query = << >>
    /\ pc' = "handled"
    /\ fn' = "empty"
    /\ UNCHANGED <<query, out, reqs, csv, arg, turns, Frame>>

TurnExit ==
    /\ pc = "dispatch"
    /\ query # << >>
    /\ IsExit(Lower(query))
    /\ pc' = "exited"
    /\ out' = <<<<"Goodbye!">>>>
    /\ fn' = "exit"
    /\ UNCHANGED <<query, reqs, csv, arg, turns, Frame>>

TurnHelp ==
    /\ pc = "dispatch"
    /\ query # << >>
    /\ ~IsExit(Lower(query))
    /\ IsHelp(Lower(query))
    /\ pc' = "handled"
    /\ out' = <<<<"help">>>>
    /\ fn' = "help"
    /\ UNCHANGED <<query, reqs, csv, arg, turns, Frame>>

TurnAllSports ==
    /\ pc = "dispatch"
    /\ query # << >>
    /\ LET cmd == Lower(query)
           d == IF In(W_today, cmd) THEN Some(now)
                ELSE IF In(W_yesterday, cmd) THEN Some(PrevDay(now))
                ELSE IF In(W_tomorrow, cmd) THEN Some(NextDay(now))
                ELSE SixDigitDate(cmd)
           date == IF d = None THEN Some(now) ELSE d
           f == FetchEach(APIS, date, now, upstream, NoFetch)
       IN  /\ ~IsExit(cmd) /\ ~IsHelp(cmd)
           /\ IsAllSports(cmd)
           /\ reqs' = f.reqs
           /\ Finish(f, f.games, <<<<"Fetching: ALL SPORTS", date>>>>)
    /\ fn' = "all_sports"
    /\ UNCHANGED <<query, arg, turns, Frame>>

TurnTeam ==
    /\ pc = "dispatch"
    /\ query # << >>
    /\ LET cmd == Lower(query)
           team_query == parse_team_query(query, now)
           f == fetch_games(None, None, team_query.date, now, upstream)
           m == find_team_game(f.games, team_query.team1, team_query.team2)
           head == <<<<"Searching", team_query.team1, team_query.team2, team_query.date>>>>
       IN  /\ ~IsExit(cmd) /\ ~IsHelp(cmd) /\ ~IsAllSports(cmd)
           /\ IsTeam(cmd)
           /\ reqs' = f.reqs
           /\ IF ~f.raised /\ m.raised
              THEN /\ pc' = "crashed"
                   /\ out' = head \o Warnings(f)
                   /\ csv' = csv
              ELSE Finish(f, m.value, head)
    /\ fn' = "team"
    /\ UNCHANGED <<query, arg, turns, Frame>>

TurnLeagues ==
    /\ pc = "dispatch"
    /\ query # << >>
    /\ LET cmd == Lower(query)
           parsed == parse_multi_league_query(query, now)
           f == FetchEach(parsed.leagues, parsed.date, now, upstream, NoFetch)
       IN  /\ ~IsExit(cmd) /\ ~IsHelp(cmd) /\ ~IsAllSports(cmd) /\ ~IsTeam(cmd)
           /\ HasLeagues(parsed)
           /\ reqs' = f.reqs
           /\ Finish(f, f.games, <<<<"Fetching", parsed.leagues, parsed.date>>>>)
    /\ fn' = "leagues"
    /\ UNCHANGED <<query, arg, turns, Frame>>

TurnUnknown ==
    /\ pc = "dispatch"
    /\ query # << >>
    /\ LET cmd == Lower(query)
       IN  /\ ~IsExit(cmd) /\ ~IsHelp(cmd) /\ ~IsAllSports(cmd) /\ ~IsTeam(cmd)
           /\ ~HasLeagues(parse_multi_league_query(query, now))
    /\ pc' = "handled"
    /\ out' = <<<<"Unknown command", query>>, <<"Type 'help' for available commands.">>>>
    /\ fn' = "unknown"
    /\ UNCHANGED <<query, reqs, csv, arg, turns, Frame>>

\* continue: back to input() for the next turn
Continue ==
    /\ pc = "handled"
    /\ pc' = "prompt"
    /\ query' = << >>
    /\ out' = << >>
    /\ reqs' = << >>
    /\ fn' = "none"
    /\ arg' = None
    /\ UNCHANGED <<csv, turns, Frame>>

Next ==
    \/ Main
    \/ ReadLine
    \/ ReadEOF
    \/ TurnEmpty
    \/ TurnExit
    \/ TurnHelp
    \/ TurnAllSports
    \/ TurnTeam
    \/ TurnLeagues
    \/ TurnUnknown
    \/ Continue

Spec == Init /\ [][Next]_vars

----------------------------------------------------------------------------
(* Claims about the program                                                 *)

InteractiveTurnOver == pc \in {"handled", "exited", "crashed"} /\ fn \notin {"main", "none"}

OneShotOver == pc \in {"done", "crashed"} /\ fn = "main"

\* C3: in the interactive loop no turn ends the process with an exception, and
\* the loop is left only by quit, exit, q or by end-of-input/interrupt, each
\* time after printing the farewell.
C3_LoopEndsOnlyOnExit ==
    InteractiveTurnOver =>
        /\ pc # "crashed"
        /\ pc = "exited" =>
              /\ fn = "eof" \/ (fn = "exit" /\ Lower(query) \in ExitCommands)
              /\ out = <<<<"Goodbye!">>>>

NamesNoLeague(s) == \A lg \in Leagues : ~Occurs(lg, s)

\* C5: a one-shot query with a week number is a week request: every request
\* made for it carries that week and no date, and when no league is named only
\* the leagues that take a week are requested.
C5_WeekTakesPrecedence ==
    (OneShotOver /\ HasWeekNumber(SeenBy("parse_query", query))) =>
        /\ \A i \in 1..Len(reqs) :
              /\ reqs[i].week = parse_query(query, now).week
              /\ reqs[i].dates = None
        /\ NamesNoLeague(SeenBy("parse_query", query)) =>
              \A i \in 1..Len(reqs) : reqs[i].league \in WeekLeagues

\* text with no league, no team separator, no week and no all-sports shortcut
Plain(s) ==
    /\ NamesNoLeague(s)
    /\ ~\E i \in 1..Len(s) : SeparatorAt(s, i)
    /\ ~HasWeekNumber(s)
    /\ ~Occurs(W_all_sports, s) /\ ~Occurs(W_all_score, s)

\* the requests of all five leagues, in declaration order, for the day d
AllFive(d) ==
    [k \in 1..Len(APIS) |-> [league |-> APIS[k], week |-> None, dates |-> Some(StrftimeYmd(d))]]

IsPrefix(a, b) == Len(a) <= Len(b) /\ a = SubSeq(b, 1, Len(a))

UnknownCommand ==
    /\ pc = "handled" /\ fn = "unknown"
    /\ out = <<<<"Unknown command", query>>, <<"Type 'help' for available commands.">>>>
    /\ reqs = << >>
    /\ csv = arg

\* the requests are those of the five leagues for day d, up to the league whose
\* answer ended the program; all five when the program ended normally
FetchedAllFive(d) ==
    /\ IsPrefix(reqs, AllFive(d))
    /\ pc = "done" => reqs = AllFive(d)
    /\ upstream = Healthy => pc = "done"

====
